---- MODULE Spec2Model ----
(***************************************************************************)
(* Checkout reservation and settlement pipeline of the merchant backend:   *)
(* the cart routes (addCartItems, applyDiscount, checkoutCart), the Stripe *)
(* webhook that settles a paid session, the cron sweep of expired carts,   *)
(* and the outbound dispatcher that delivers events to subscribers.        *)
(*                                                                         *)
(* The store (a Durable Object over SQLite) runs one statement at a time,  *)
(* so a statement is atomic, and a handler is a process that moves from    *)
(* one awaited statement to the next.  Consecutive statements of a handler *)
(* are one step of the model only where no other handler can read or       *)
(* write what they touch in between; each such step says so.               *)
(***************************************************************************)
EXTENDS Integers, Sequences, FiniteSets, TLC

NULL == "null"

\* A NULL integer column (usage_limit, usage_limit_per_customer).
NoLimit == 0 - 1

\* The undefined a query returns when no row matches.
NoRow == [null |-> TRUE]

\* MAX_ATTEMPTS of the outbound dispatcher.
MAX_ATTEMPTS == 3

Skus == {"X", "Y"}
Carts == {"c1", "c2"}

\* A cart that is filled and then left behind: no checkout is ever asked for it.
StaleCarts == {"c3"}
AllCarts == Carts \cup StaleCarts
Discounts == {"SAVE10"}
Emails == {"a@shop"}
CheckoutIds == {"k1", "k2"}
DeliveryIds == {"w1", "w2"}
ReplaceIds == {"r1"}

\* Invocation ids are handed out in order of arrival: k2 names the checkout that
\* arrives after k1, w2 the delivery that arrives after w1.
Earlier == [k1 |-> {}, k2 |-> {"k1"}, w1 |-> {}, w2 |-> {"w1"}]

\* Bounds of the model: the stock each SKU starts with, the largest quantity of a
\* requested line, and the usage_limit of the discount.
MaxStock == 1
MaxQty == 1
MaxLimit == 1

\* Bound of the model: the number of times a delivery is enqueued again, by the retry
\* sweep or by the operator's retry route.
MaxRetries == 1

\* webhook_deliveries rows (one subscriber, one event).
Deliveries == {"d1"}

\* deliverWebhook invocations, numbered in the order they are started: 0 is started by
\* dispatchWebhooks, the others by a retry.
Tasks == 0..MaxRetries

\* What the subscriber answers to a POST: a status code, or 0 when fetch throws
\* (timeout, network error).
Responses == {200, 404, 429, 500, 0}

\* carts.customer_email of the carts (one shopper).
CartEmail == [c \in AllCarts |-> "a@shop"]

\* Strings the matching of a subscription takes apart, as sequences of characters: the
\* WebhookEventType values,
order_created == <<"o", "r", "d", "e", "r", ".", "c", "r", "e", "a", "t", "e", "d">>
order_updated == <<"o", "r", "d", "e", "r", ".", "u", "p", "d", "a", "t", "e", "d">>
order_shipped == <<"o", "r", "d", "e", "r", ".", "s", "h", "i", "p", "p", "e", "d">>
order_refunded == <<"o", "r", "d", "e", "r", ".", "r", "e", "f", "u", "n", "d", "e", "d">>
inventory_low == <<"i", "n", "v", "e", "n", "t", "o", "r", "y", ".", "l", "o", "w">>
WebhookEventTypes ==
    {order_created, order_updated, order_shipped, order_refunded, inventory_low}

\* and the wildcards.
order_any == <<"o", "r", "d", "e", "r", ".", "*">>
any == <<"*">>

\* VALID_EVENTS: the entries a webhooks.events array can hold.
FilterEntries == WebhookEventTypes \cup {order_any, any}

\* The length of the longest events array.
MaxFilters == 2

RECURSIVE SeqsUpTo(_, _)
SeqsUpTo(S, n) ==
    IF n = 1 THEN {<<x>> : x \in S}
    ELSE LET shorter == SeqsUpTo(S, n - 1)
         IN shorter \cup {Append(q, x) : q \in shorter, x \in S}

\* The events arrays of the request bodies: z.array(WebhookEvent).min(1).
FilterLists == SeqsUpTo(FilterEntries, MaxFilters)

\* The webhooks rows.
Subscribers == {"h1", "h2"}

\* variants.price_cents, copied into cart_items.unit_price_cents on add.
PriceCents == [s \in Skus |-> 10]

\* Request bodies of POST /{cartId}/items.
ItemLists ==
    {<<[sku |-> "X", qty |-> q]>> : q \in 1..MaxQty}
        \cup {<<[sku |-> "Y", qty |-> 1]>>,
              <<[sku |-> "X", qty |-> 1], [sku |-> "Y", qty |-> 1]>>}

VARIABLES
    inventory,       \* inventory rows: sku -> [on_hand, reserved]
    carts,           \* carts rows with their cart_items
    discounts,       \* discounts rows
    customers,       \* customers rows by email
    orders,          \* orders rows
    order_items,     \* order_items rows
    discount_usage,  \* discount_usage rows
    events,          \* events.stripe_event_id values
    sessions,        \* Stripe checkout sessions created by checkoutCart
    pastExpiry,      \* cart -> expires_at < now
    co,              \* checkoutCart invocations
    wh,              \* Stripe webhook deliveries
    webhook_deliveries,  \* webhook_deliveries rows of the outbound dispatcher
    dw,              \* deliverWebhook invocations
    failed,          \* retryFailedDeliveries: the rows it has selected
    fetches,         \* POSTs made to the subscriber so far, per delivery
    rp,              \* addCartItems invocations, taken statement by statement
    webhooks,        \* webhooks rows: the subscribers of the outbound dispatcher
    dp,              \* the dispatchWebhooks invocation: its loop over the subscribers
    variants,        \* variants rows: sku -> status, "none" once the row is deleted
    ucp              \* the ucp_checkout_sessions row and the requests on it

store == <<inventory, carts, discounts, customers, orders, order_items, discount_usage, events>>
\* The invocations of the handlers that run beside the checkout, the settlement and the
\* dispatcher.
subscriptions == <<webhooks, dp>>
requests == <<rp, subscriptions, variants, ucp>>

\* What the outbound dispatcher reads and writes.
dispatch == <<webhook_deliveries, dw, failed, fetches>>

\* What the checkout, the settlement and the sweep read and write.
pipeline == <<inventory, carts, discounts, customers, orders, order_items, discount_usage,
              events, sessions, pastExpiry, co, wh>>

vars == <<inventory, carts, discounts, customers, orders, order_items, discount_usage, events,
          sessions, pastExpiry, co, wh, webhook_deliveries, dw, failed, fetches, rp,
          webhooks, dp, variants, ucp>>

Min(a, b) == IF a < b THEN a ELSE b
Max(a, b) == IF a > b THEN a ELSE b

RECURSIVE Subtotal(_)
Subtotal(items) ==
    IF items = <<>> THEN 0
    ELSE PriceCents[Head(items).sku] * Head(items).qty + Subtotal(Tail(items))

RECURSIVE QtyOf(_, _)
QtyOf(items, s) ==
    IF items = <<>> THEN 0
    ELSE (IF Head(items).sku = s THEN Head(items).qty ELSE 0) + QtyOf(Tail(items), s)

\* validateDiscount, the checks on the discount row itself.
ValidateDiscountRow(d, subtotalCents) ==
    /\ d.status = "active"
    /\ d.in_window
    /\ ~(d.min_purchase_cents > 0 /\ subtotalCents < d.min_purchase_cents)
    /\ ~(d.usage_limit # NoLimit /\ d.usage_count >= d.usage_limit)

\* SELECT COUNT(*) FROM discount_usage WHERE discount_id = ? AND customer_email = ?
UsageCount(id, email) ==
    Cardinality({u \in discount_usage : u.discount_id = id /\ u.customer_email = email})

\* validateDiscount, the per-customer check.
ValidateDiscountCustomer(d, id, email) ==
    d.usage_limit_per_customer = NoLimit \/ UsageCount(id, email) < d.usage_limit_per_customer

\* Which check of validateDiscount throws, in the order it makes them.
Refusal(d, subtotalCents, id, email) ==
    IF d.status # "active" THEN "not_active"
    ELSE IF ~d.in_window THEN "window"
    ELSE IF d.min_purchase_cents > 0 /\ subtotalCents < d.min_purchase_cents THEN "minimum"
    ELSE IF d.usage_limit # NoLimit /\ d.usage_count >= d.usage_limit THEN "usage_limit"
    ELSE IF ~ValidateDiscountCustomer(d, id, email) THEN "per_customer"
    ELSE "none"

\* calculateDiscount (the model's discounts are fixed_amount).
calculateDiscount(d, subtotalCents) == Min(d.value, subtotalCents)

IdleCo ==
    [pc |-> "idle", cart |-> NULL, discount_id |-> NULL, items |-> <<>>, i |-> 0,
     reservedItems |-> <<>>, discount |-> NoRow, discountReserved |-> FALSE,
     discountAmountCents |-> 0, error |-> NULL, failedAt |-> "none", failedIndex |-> 0,
     rbOrder |-> NULL, unlisted |-> FALSE,
     netReserved |-> [s \in Skus |-> 0], netUsage |-> 0]

IdleWh ==
    [pc |-> "idle", signature |-> NULL, session |-> NULL, sequential |-> TRUE,
     retry |-> FALSE, cart |-> NULL,
     discountAmountCents |-> 0, items |-> <<>>, i |-> 0, discountId |-> NULL,
     discount |-> NoRow, existingCustomer |-> FALSE, orderId |-> NULL,
     dispatched |-> TRUE, error |-> NULL, result |-> NULL]

\* An addCartItems invocation: the cart row it read, its validatedItems and its place in
\* the INSERT loop.
IdleRp == [pc |-> "idle", cart |-> NULL, discount_id |-> NULL, validatedItems |-> <<>>,
           i |-> 0, error |-> NULL]

\* No ucp_checkout_sessions row, and no request on it under way.  expired: expires_at
\* lies in the past.  put, complete, cancel and hook are the places of the PUT, the
\* POST .../complete, the DELETE and handleUCPStripeWebhook; resolved is what the PUT
\* is about to write.
IdleUcp ==
    [status |-> "none", line_items |-> <<>>, stripe_session_id |-> NULL,
     expired |-> FALSE, put |-> "idle", resolved |-> NoRow, complete |-> "idle",
     cancel |-> "idle", hook |-> "idle"]

\* No webhooks row under this id.
NoWebhook == [status |-> "none", events |-> <<>>]

\* The dispatchWebhooks invocation: the event it was called with, the rows its SELECT
\* returned that the loop has not visited yet, and the webhook_deliveries rows it has
\* inserted.
IdleDp == [pc |-> "idle", eventType |-> <<>>, selected |-> <<>>, rest |-> <<>>,
           inserted |-> <<>>]

\* No row; a row once inserted has status 'pending' and attempts 0 by default.
NoDelivery == [status |-> "none", attempts |-> 0]

\* No POST has just been answered.
NoResponse == 0 - 1

IdleDw ==
    [pc |-> "idle", deliveryId |-> NULL, attempt |-> 0, delays |-> <<>>,
     always500 |-> TRUE, response |-> NoResponse, mark |-> NULL]

Init ==
    /\ inventory \in [Skus -> {[on_hand |-> n, reserved |-> 0] : n \in {MaxStock}}]
    /\ carts = [c \in AllCarts |->
                  [status |-> "open", items |-> <<>>, discount_id |-> NULL,
                   discount_amount_cents |-> 0, stripe_checkout_session_id |-> NULL]]
    /\ discounts \in [Discounts ->
                        {[status |-> "active", in_window |-> TRUE, value |-> 5,
                          min_purchase_cents |-> 0, usage_limit |-> l,
                          usage_limit_per_customer |-> 1, usage_count |-> 0]
                           : l \in {MaxLimit}}]
    /\ customers = [e \in Emails |-> [exists |-> FALSE, order_count |-> 0]]
    /\ orders = {}
    /\ order_items = {}
    /\ discount_usage = {}
    /\ events = {}
    /\ sessions = {}
    /\ pastExpiry = [c \in AllCarts |-> FALSE]
    /\ co = [k \in CheckoutIds |-> IdleCo]
    /\ wh = [w \in DeliveryIds |-> IdleWh]
    /\ webhook_deliveries = [d \in Deliveries |-> NoDelivery]
    /\ dw = [t \in Tasks |-> IdleDw]
    /\ failed = {}
    /\ fetches = [d \in Deliveries |-> 0]
    /\ rp = [r \in ReplaceIds |-> IdleRp]
    /\ webhooks = [h \in Subscribers |-> NoWebhook]
    /\ dp = IdleDp
    /\ variants = [s \in Skus |-> "active"]
    /\ ucp = IdleUcp

\* The variants row and the inventory row of a SKU exist: deleteVariant and deleteProduct
\* delete the two together.  An UPDATE for a SKU without a row changes nothing.
HasRow(s) == variants[s] # "none"

\* A line of the items names a SKU that is not an active variant.
RECURSIVE Unlisted(_)
Unlisted(items) ==
    IF items = <<>> THEN FALSE
    ELSE variants[Head(items).sku] # "active" \/ Unlisted(Tail(items))

(***************************************************************************)
(* checkoutCart: POST /{cartId}/checkout                                   *)
(***************************************************************************)

\* The reservation UPDATE without its availability condition.
ReserveUnguarded(inv, qty) == TRUE

\* WHERE sku = ? AND on_hand - reserved >= ?
ReserveGuard(inv, qty) == inv.on_hand - inv.reserved >= qty

\* The usage_count UPDATE without its usage_count < usage_limit condition.
UsageUnguarded(d) == d.status = "active" /\ d.in_window

\* WHERE status = 'active' AND window AND usage_count < usage_limit
UsageGuard(d) == d.status = "active" /\ d.in_window /\ d.usage_count < d.usage_limit

\* WHERE status = 'active' AND window (discount without usage_limit)
ActiveGuard(d) == d.status = "active" /\ d.in_window

\* reserved = MAX(reserved - ?, 0)
ReleasedReserved(reserved, qty) == Max(reserved - qty, 0)

\* usage_count = MAX(usage_count - 1, 0)
ReleasedUsage(count) == Max(count - 1, 0)

\* The handler has thrown or returned: its locals are gone.
Ended(rec, pc) ==
    [rec EXCEPT !.pc = pc, !.items = <<>>, !.i = 0, !.reservedItems = <<>>,
                !.discount = NoRow, !.discount_id = NULL, !.rbOrder = NULL,
                !.failedAt = "none", !.failedIndex = 0, !.discountReserved = FALSE,
                !.discountAmountCents = 0,
                !.netReserved = [s \in Skus |-> 0], !.netUsage = 0]

\* First compensating statement of a rollback that runs in the given order.
EnterRollback(rec, order) ==
    [rec EXCEPT !.rbOrder = order,
                !.pc = IF order = "inv_first"
                       THEN (IF rec.reservedItems # <<>> THEN "release_inv"
                             ELSE IF rec.discountReserved THEN "release_disc" ELSE "revert")
                       ELSE (IF rec.discountReserved THEN "release_disc"
                             ELSE IF rec.reservedItems # <<>> THEN "release_inv" ELSE "revert")]

\* The flip without its status condition.
FlipUnguarded(cart) == TRUE

\* The flip refusing only a cart that is checked_out.
FlipNotHeld(cart) == cart.status # "checked_out"

\* WHERE id = ? AND status = 'open'
FlipGuard(cart) == cart.status = "open"

\* UPDATE carts SET status = 'checked_out' WHERE id = ? AND status = 'open', and on
\* success the reads of the cart row and of its cart_items: nothing writes a
\* checked_out cart or its items, so the reads see what they would see later.
CheckoutFlip(k, c) ==
    /\ co[k].pc = "idle"
    /\ \A j \in Earlier[k] : co[j].pc # "idle"
    /\ IF FlipGuard(carts[c])
       THEN /\ carts' = [carts EXCEPT ![c].status = "checked_out"]
            /\ LET items == carts[c].items
                   id == carts[c].discount_id
               IN co' = [co EXCEPT
                            ![k].cart = c, ![k].items = items, ![k].discount_id = id,
                            ![k].unlisted = Unlisted(items),
                            ![k].i = 1,
                            ![k].error = IF items = <<>> THEN "invalid_request" ELSE NULL,
                            ![k].failedAt = IF items = <<>> THEN "empty" ELSE "none",
                            ![k].pc = IF items = <<>> THEN "revert"
                                      ELSE IF id # NULL THEN "load_discount"
                                      ELSE "reserve"]
       ELSE /\ co' = [co EXCEPT ![k].pc = "flip_failed", ![k].cart = c]
            /\ UNCHANGED carts
    /\ UNCHANGED <<inventory, discounts, customers, orders, order_items, discount_usage,
                   events, sessions, pastExpiry, wh, dispatch, requests>>

\* changes === 0: re-read the cart to pick the error.
CheckoutFlipFailed(k) ==
    /\ co[k].pc = "flip_failed"
    /\ co' = [co EXCEPT ![k] =
                 Ended([co[k] EXCEPT !.failedAt = "flip",
                                     !.error = IF carts[co[k].cart].status # "open"
                                               THEN "conflict" ELSE "invalid_request"],
                       "failed")]
    /\ UNCHANGED <<store, sessions, pastExpiry, wh, dispatch, requests>>

\* SELECT * FROM discounts WHERE id = ?, validateDiscount on the row read, and the
\* per-customer usage counts (validateDiscount's and checkoutCart's own).  The
\* counts only grow, so reading them together with the row loses no outcome.
CheckoutLoadDiscount(k) ==
    /\ co[k].pc = "load_discount"
    /\ LET d == discounts[co[k].discount_id]
           valid == /\ ValidateDiscountRow(d, Subtotal(co[k].items))
                    /\ ValidateDiscountCustomer(d, co[k].discount_id, CartEmail[co[k].cart])
       IN co' = [co EXCEPT
                    ![k].discount = d,
                    ![k].failedAt = IF valid THEN "none"
                                    ELSE Refusal(d, Subtotal(co[k].items), co[k].discount_id,
                                                 CartEmail[co[k].cart]),
                    ![k].pc = IF valid THEN "reserve_discount" ELSE "strip_discount"]
    /\ UNCHANGED <<store, sessions, pastExpiry, wh, dispatch, requests>>

\* The conditional usage_count increment (usage_limit set) or the touch (not set).
CheckoutReserveDiscount(k) ==
    /\ co[k].pc = "reserve_discount"
    /\ LET id == co[k].discount_id
           row == discounts[id]
           amount == calculateDiscount(co[k].discount, Subtotal(co[k].items))
       IN IF co[k].discount.usage_limit # NoLimit
          THEN IF UsageGuard(row)
               THEN /\ discounts' = [discounts EXCEPT ![id].usage_count = @ + 1]
                    /\ co' = [co EXCEPT ![k].discountReserved = TRUE,
                                        ![k].netUsage = @ + 1,
                                        ![k].discountAmountCents = amount,
                                        ![k].pc = "reserve"]
               ELSE /\ co' = [co EXCEPT ![k].pc = "strip_discount",
                                        ![k].failedAt = "usage_guard"]
                    /\ UNCHANGED discounts
          ELSE /\ UNCHANGED discounts
               /\ co' = [co EXCEPT ![k].discountAmountCents =
                                       IF ActiveGuard(row) THEN amount ELSE 0,
                                   ![k].failedAt = IF ActiveGuard(row) THEN "none"
                                                   ELSE "active_guard",
                                   ![k].pc = IF ActiveGuard(row) THEN "reserve"
                                             ELSE "strip_discount"]
    /\ UNCHANGED <<inventory, carts, customers, orders, order_items, discount_usage,
                   events, sessions, pastExpiry, wh, dispatch, requests>>

\* UPDATE carts SET discount_code = NULL, discount_id = NULL, discount_amount_cents = 0,
\* then revertCartStatus and the throw.  The cart is checked_out between the two
\* statements, so no other handler reads the stripped row before the revert.
CheckoutStripDiscount(k) ==
    /\ co[k].pc = "strip_discount"
    /\ carts' = [carts EXCEPT ![co[k].cart].discount_id = NULL,
                              ![co[k].cart].discount_amount_cents = 0,
                              ![co[k].cart].status = "open"]
    /\ co' = [co EXCEPT ![k] = Ended([co[k] EXCEPT !.error = "invalid_request"], "failed")]
    /\ UNCHANGED <<inventory, discounts, customers, orders, order_items, discount_usage,
                   events, sessions, pastExpiry, wh, dispatch, requests>>

\* One pass of the reservation loop.
CheckoutReserveItem(k) ==
    /\ co[k].pc = "reserve"
    /\ LET item == co[k].items[co[k].i]
           last == co[k].i = Len(co[k].items)
       IN IF HasRow(item.sku) /\ ReserveGuard(inventory[item.sku], item.qty)
          THEN /\ inventory' = [inventory EXCEPT ![item.sku].reserved = @ + item.qty]
               /\ co' = [co EXCEPT ![k].reservedItems = Append(@, item),
                                   ![k].netReserved[item.sku] = @ + item.qty,
                                   ![k].i = @ + 1,
                                   ![k].pc = IF last THEN "provider" ELSE "reserve"]
          ELSE /\ co' = [co EXCEPT ![k] =
                            EnterRollback([co[k] EXCEPT !.failedAt = "reserve",
                                                        !.failedIndex = co[k].i,
                                                        !.error = "insufficient_inventory"],
                                          "inv_first")]
               /\ UNCHANGED inventory
    /\ UNCHANGED <<carts, discounts, customers, orders, order_items, discount_usage,
                   events, sessions, pastExpiry, wh, dispatch, requests>>

\* releaseReservedInventory: one statement of its loop.
CheckoutReleaseItem(k) ==
    /\ co[k].pc = "release_inv"
    /\ LET item == Head(co[k].reservedItems)
           rest == Tail(co[k].reservedItems)
           now == IF HasRow(item.sku)
                  THEN ReleasedReserved(inventory[item.sku].reserved, item.qty)
                  ELSE inventory[item.sku].reserved
       IN /\ inventory' = [inventory EXCEPT ![item.sku].reserved = now]
          /\ co' = [co EXCEPT ![k].reservedItems = rest,
                              ![k].netReserved[item.sku] =
                                  @ - (inventory[item.sku].reserved - now),
                              ![k].pc = IF rest # <<>> THEN "release_inv"
                                        ELSE IF co[k].rbOrder = "inv_first"
                                                /\ co[k].discountReserved
                                        THEN "release_disc" ELSE "revert"]
    /\ UNCHANGED <<carts, discounts, customers, orders, order_items, discount_usage,
                   events, sessions, pastExpiry, wh, dispatch, requests>>

\* releaseReservedDiscount
CheckoutReleaseDiscount(k) ==
    /\ co[k].pc = "release_disc"
    /\ LET id == co[k].discount_id
           now == ReleasedUsage(discounts[id].usage_count)
       IN /\ discounts' = [discounts EXCEPT ![id].usage_count = now]
          /\ co' = [co EXCEPT ![k].netUsage = @ - (discounts[id].usage_count - now),
                              ![k].pc = IF co[k].rbOrder = "disc_first"
                                           /\ co[k].reservedItems # <<>>
                                        THEN "release_inv" ELSE "revert"]
    /\ UNCHANGED <<inventory, carts, customers, orders, order_items, discount_usage,
                   events, sessions, pastExpiry, wh, dispatch, requests>>

\* revertCartStatus, then the error is thrown.
CheckoutRevert(k) ==
    /\ co[k].pc = "revert"
    /\ carts' = [carts EXCEPT ![co[k].cart].status = "open"]
    /\ co' = [co EXCEPT ![k] = Ended(co[k], "failed")]
    /\ UNCHANGED <<inventory, discounts, customers, orders, order_items, discount_usage,
                   events, sessions, pastExpiry, wh, dispatch, requests>>

\* What the two calls to the payment provider can do.
ProviderOutcomes == {"ok", "coupon_failed", "session_failed"}

\* stripe.coupons.create for the discount (the model's discounts carry no
\* stripe_coupon_id), stripe.checkout.sessions.create, and on success the UPDATE that
\* stores the session id and the discount amount on the cart.  The provider calls
\* touch no row, and nothing reads the session or the stored values before the
\* handler has returned the checkout URL, so the three are one step.
CheckoutProvider(k, outcome) ==
    /\ co[k].pc = "provider"
    /\ outcome = "coupon_failed" => co[k].discount # NoRow /\ co[k].discountAmountCents > 0
    /\ IF outcome = "ok"
       THEN /\ sessions' = sessions \cup
                   {[id |-> k, cart_id |-> co[k].cart, line_items |-> co[k].items,
                     discount_id |-> IF co[k].discount # NoRow THEN co[k].discount_id
                                     ELSE NULL]}
            /\ carts' = [carts EXCEPT ![co[k].cart].stripe_checkout_session_id = k,
                                      ![co[k].cart].discount_amount_cents =
                                          co[k].discountAmountCents]
            /\ co' = [co EXCEPT ![k] = Ended(co[k], "done")]
       ELSE /\ co' = [co EXCEPT ![k] =
                         EnterRollback([co[k] EXCEPT !.failedAt = outcome,
                                                     !.error = "invalid_request"],
                                       "disc_first")]
            /\ UNCHANGED <<sessions, carts>>
    /\ UNCHANGED <<inventory, discounts, customers, orders, order_items, discount_usage,
                   events, pastExpiry, wh, dispatch, requests>>

\* The steps of a checkout of a cart without a discount.
CheckoutCore(k) ==
    \/ \E c \in Carts : CheckoutFlip(k, c)
    \/ CheckoutFlipFailed(k)
    \/ CheckoutReserveItem(k)
    \/ CheckoutReleaseItem(k)
    \/ CheckoutRevert(k)
    \/ \E outcome \in ProviderOutcomes : CheckoutProvider(k, outcome)

\* The steps a discount on the cart adds, but for the refusal of the discount.
CheckoutDiscount(k) ==
    \/ CheckoutLoadDiscount(k)
    \/ CheckoutReserveDiscount(k)
    \/ CheckoutReleaseDiscount(k)

Checkout(k) == CheckoutCore(k) \/ CheckoutDiscount(k) \/ CheckoutStripDiscount(k)

(***************************************************************************)
(* webhooks.post('/stripe'): settlement of checkout.session.completed      *)
(***************************************************************************)

\* The completion event of a session carries the session's id as event.id: every
\* delivery of the notification of one session has the same event.id.
SessionOf(id) == CHOOSE s \in sessions : s.id = id

\* The dedupe SELECT finding nothing.
ExistingNever(eventId) == FALSE

\* SELECT id FROM events WHERE stripe_event_id = ?
Existing(eventId) == eventId \in events

\* A call the handler awaits has raised: the handler ends with a 500.
Raised(rec) ==
    [rec EXCEPT !.pc = "failed", !.error = "internal", !.items = <<>>, !.i = 0,
                !.discount = NoRow, !.discountId = NULL, !.existingCustomer = FALSE,
                !.discountAmountCents = 0]

\* The handler has returned { ok: true }.
Returned(rec, result) ==
    [rec EXCEPT !.pc = "done", !.result = result, !.items = <<>>, !.i = 0,
                !.discount = NoRow, !.discountId = NULL, !.existingCustomer = FALSE,
                !.discountAmountCents = 0]

\* The stripe-signature header of a request: a signature of the body under the
\* webhook secret, some other value, or no header.
Signatures == {"valid", "invalid", "missing"}

\* Verification letting every signature through.
VerifiedAny(signature) == TRUE

\* stripe.webhooks.constructEventAsync(body, signature, webhook_secret) does not throw.
Verified(signature) == signature = "valid"

\* A request naming the completion event of a session whose checkout has returned its
\* URL: the header check and the verification of the signature (the Stripe keys are
\* configured), which write nothing.  sequential and retry are history: whether every
\* other delivery of the event had ended when this one arrived, and whether one of
\* them had stopped with an error in the middle of its handling.
WebhookReceive(w, s, signature) ==
    /\ wh[w].pc = "idle"
    /\ \A v \in Earlier[w] : wh[v].pc # "idle"
    /\ s \in sessions
    /\ co[s.id].pc = "done"
    /\ wh' = [wh EXCEPT ![w] =
                 IF signature = "missing"
                 THEN [wh[w] EXCEPT !.pc = "failed", !.signature = signature,
                                    !.session = s.id, !.error = "invalid_request"]
                 ELSE IF ~Verified(signature)
                 THEN [wh[w] EXCEPT !.pc = "failed", !.signature = signature,
                                    !.session = s.id,
                                    !.error = "webhook_signature_invalid"]
                 ELSE [wh[w] EXCEPT
                          !.pc = "dedupe",
                          !.signature = signature,
                          !.session = s.id,
                          !.sequential =
                              \A v \in DeliveryIds \ {w} :
                                  wh[v].session = s.id => wh[v].pc \in {"done", "failed"},
                          !.retry =
                              \E v \in DeliveryIds \ {w} :
                                  /\ wh[v].session = s.id
                                  /\ wh[v].pc = "failed"
                                  /\ wh[v].error = "internal"]]
    /\ UNCHANGED <<store, sessions, pastExpiry, co, dispatch, requests>>

\* The dedupe SELECT, then the reads of the cart, its cart_items, the Stripe session and
\* the discount row: no handler writes what these read once the cart has a session.
WebhookDedupe(w) ==
    /\ wh[w].pc = "dedupe"
    /\ LET s == SessionOf(wh[w].session)
           cart == carts[s.cart_id]
           found == s.discount_id # NULL
       IN wh' = [wh EXCEPT ![w] =
                    IF Existing(wh[w].session)
                    THEN Returned(wh[w], "ok_duplicate")
                    ELSE [wh[w] EXCEPT
                             !.pc = "customer_select",
                             !.cart = s.cart_id,
                             !.items = cart.items,
                             !.i = 1,
                             !.discountId = s.discount_id,
                             !.discount = IF found THEN discounts[s.discount_id] ELSE NoRow,
                             !.discountAmountCents =
                                 IF found THEN cart.discount_amount_cents ELSE 0]]
    /\ UNCHANGED <<store, sessions, pastExpiry, co, dispatch, requests>>

\* SELECT id, order_count, total_spent_cents FROM customers WHERE email = ?
WebhookCustomerSelect(w) ==
    /\ wh[w].pc = "customer_select"
    /\ wh' = [wh EXCEPT ![w].existingCustomer = customers[CartEmail[wh[w].cart]].exists,
                        ![w].pc = "customer_write"]
    /\ UNCHANGED <<store, sessions, pastExpiry, co, dispatch, requests>>

\* UPDATE customers SET order_count = order_count + 1, or INSERT INTO customers
\* (email is UNIQUE, so the INSERT raises when the row exists by now).
WebhookCustomerWrite(w) ==
    /\ wh[w].pc = "customer_write"
    /\ LET e == CartEmail[wh[w].cart] IN
       IF wh[w].existingCustomer
       THEN /\ customers' = [customers EXCEPT ![e].order_count = @ + 1]
            /\ wh' = [wh EXCEPT ![w].pc = "order_insert"]
       ELSE IF customers[e].exists
       THEN /\ wh' = [wh EXCEPT ![w] = Raised(wh[w])]
            /\ UNCHANGED customers
       ELSE /\ customers' = [customers EXCEPT ![e] = [exists |-> TRUE, order_count |-> 1]]
            /\ wh' = [wh EXCEPT ![w].pc = "order_insert"]
    /\ UNCHANGED <<inventory, carts, discounts, orders, order_items, discount_usage, events,
                   sessions, pastExpiry, co, dispatch, requests>>

\* for (const item of items): the body runs once per cart_items row read, not at all
\* when none was read.
ItemLoop(items) == IF items = <<>> THEN "cart_expire" ELSE "settle_item"

\* INSERT INTO orders, under a fresh uuid.
WebhookOrderInsert(w) ==
    /\ wh[w].pc = "order_insert"
    /\ orders' = orders \cup
           {[id |-> w, stripe_checkout_session_id |-> wh[w].session,
             customer_email |-> CartEmail[wh[w].cart], discount_id |-> wh[w].discountId]}
    /\ wh' = [wh EXCEPT ![w].orderId = w,
                        ![w].pc = IF wh[w].discountId # NULL /\ wh[w].discountAmountCents > 0
                                  THEN "discount_usage" ELSE ItemLoop(wh[w].items)]
    /\ UNCHANGED <<inventory, carts, discounts, customers, order_items, discount_usage,
                   events, sessions, pastExpiry, co, dispatch, requests>>

\* An INSERT INTO discount_usage with no condition.
UsageRowUnguarded(count, limit) == TRUE

\* WHERE (SELECT COUNT(*) FROM discount_usage WHERE discount_id = ? AND
\* customer_email = ?) < ?
UsageRowGuard(count, limit) == count < limit

\* The conditional INSERT INTO discount_usage (no row exists for the fresh order id).
WebhookDiscountUsage(w) ==
    /\ wh[w].pc = "discount_usage"
    /\ LET e == CartEmail[wh[w].cart]
           limit == wh[w].discount.usage_limit_per_customer
       IN discount_usage' =
              IF limit = NoLimit \/ UsageRowGuard(UsageCount(wh[w].discountId, e), limit)
              THEN discount_usage \cup
                       {[discount_id |-> wh[w].discountId, order_id |-> wh[w].orderId,
                         customer_email |-> e]}
              ELSE discount_usage
    /\ wh' = [wh EXCEPT ![w].pc = ItemLoop(wh[w].items)]
    /\ UNCHANGED <<inventory, carts, discounts, customers, orders, order_items, events,
                   sessions, pastExpiry, co, dispatch, requests>>

\* SET reserved = reserved - ?, on_hand = on_hand - ?
SettledRow(inv, qty) == [on_hand |-> inv.on_hand - qty, reserved |-> inv.reserved - qty]

\* One pass of the item loop: INSERT INTO order_items, the inventory UPDATE and the
\* inventory_logs INSERT.  No handler reads order_items or inventory_logs.
WebhookSettleItem(w) ==
    /\ wh[w].pc = "settle_item"
    /\ LET item == wh[w].items[wh[w].i] IN
       /\ order_items' = order_items \cup
              {[order_id |-> wh[w].orderId, sku |-> item.sku, qty |-> item.qty]}
       /\ inventory' = IF HasRow(item.sku)
                       THEN [inventory EXCEPT ![item.sku] = SettledRow(@, item.qty)]
                       ELSE inventory
    /\ wh' = [wh EXCEPT ![w].i = @ + 1,
                        ![w].pc = IF wh[w].i = Len(wh[w].items) THEN "cart_expire"
                                  ELSE "settle_item"]
    /\ UNCHANGED <<carts, discounts, customers, orders, discount_usage, events, sessions,
                   pastExpiry, co, dispatch, requests>>

\* UPDATE carts SET status = 'expired', then dispatchWebhooks('order.created'), which
\* reads and writes only the dispatcher's own tables and may raise; dispatched is
\* history: FALSE once the call has raised.
WebhookCartExpire(w, dispatched) ==
    /\ wh[w].pc = "cart_expire"
    /\ carts' = [carts EXCEPT ![wh[w].cart].status = "expired"]
    /\ wh' = [wh EXCEPT ![w] = IF dispatched THEN [wh[w] EXCEPT !.pc = "log_event"]
                               ELSE [Raised(wh[w]) EXCEPT !.dispatched = FALSE]]
    /\ UNCHANGED <<inventory, discounts, customers, orders, order_items, discount_usage,
                   events, sessions, pastExpiry, co, dispatch, requests>>

\* INSERT INTO events (stripe_event_id is UNIQUE), then { ok: true }.
WebhookLogEvent(w) ==
    /\ wh[w].pc = "log_event"
    /\ IF Existing(wh[w].session)
       THEN /\ wh' = [wh EXCEPT ![w] = Raised(wh[w])]
            /\ UNCHANGED events
       ELSE /\ events' = events \cup {wh[w].session}
            /\ wh' = [wh EXCEPT ![w] = Returned(wh[w], "ok")]
    /\ UNCHANGED <<inventory, carts, discounts, customers, orders, order_items,
                   discount_usage, sessions, pastExpiry, co, dispatch, requests>>

\* The statement the handler is about to run raises (the store or Stripe is
\* unreachable): the handler stops there, with what it has written so far.
WebhookFail(w) ==
    /\ wh[w].pc \in {"customer_select", "customer_write", "order_insert", "discount_usage",
                     "settle_item", "cart_expire", "log_event"}
    /\ wh' = [wh EXCEPT ![w] = Raised(wh[w])]
    /\ UNCHANGED <<store, sessions, pastExpiry, co, dispatch, requests>>

Webhook(w) ==
    \/ \E s \in sessions, signature \in Signatures : WebhookReceive(w, s, signature)
    \/ WebhookDedupe(w)
    \/ WebhookCustomerSelect(w)
    \/ WebhookCustomerWrite(w)
    \/ WebhookOrderInsert(w)
    \/ WebhookDiscountUsage(w)
    \/ WebhookSettleItem(w)
    \/ \E dispatched \in BOOLEAN : WebhookCartExpire(w, dispatched)
    \/ WebhookLogEvent(w)
    \/ WebhookFail(w)

(***************************************************************************)
(* cleanupExpiredCarts, run by the scheduled() handler                     *)
(***************************************************************************)

\* SELECT id FROM carts WHERE status = 'open' AND expires_at < ?
ExpiredCarts == {c \in AllCarts : carts[c].status = "open" /\ pastExpiry[c]}

\* Quantity of a SKU over the cart_items of the given carts.
RECURSIVE SumQty(_, _)
SumQty(cs, s) ==
    IF cs = {} THEN 0
    ELSE LET c == CHOOSE x \in cs : TRUE
         IN QtyOf(carts[c].items, s) + SumQty(cs \ {c}, s)

\* SET reserved = reserved - ?
SweptReserved(reserved, qty) == reserved - qty

\* The whole sweep runs inside the store object without awaiting: one step.
cleanupExpiredCarts ==
    /\ ExpiredCarts # {}
    /\ inventory' = [s \in Skus |->
                        IF HasRow(s)
                        THEN [inventory[s] EXCEPT
                                 !.reserved = SweptReserved(@, SumQty(ExpiredCarts, s))]
                        ELSE inventory[s]]
    /\ carts' = [c \in AllCarts |->
                    IF c \in ExpiredCarts
                    THEN [carts[c] EXCEPT !.status = "expired", !.items = <<>>]
                    ELSE carts[c]]
    /\ UNCHANGED <<discounts, customers, orders, order_items, discount_usage, events,
                   sessions, pastExpiry, co, wh, dispatch, requests>>

\* The clock passes the expires_at of a cart, whatever its status.
ExpiryPasses(c) ==
    /\ ~pastExpiry[c]
    /\ pastExpiry' = [pastExpiry EXCEPT ![c] = TRUE]
    /\ UNCHANGED <<store, sessions, co, wh, dispatch, requests>>

\* The clock passes the expires_at of a cart.  Only the sweep reads expires_at, and
\* only of open carts, so the moment is taken while the cart is open.
TimePasses(c) == carts[c].status = "open" /\ ExpiryPasses(c)

(***************************************************************************)
(* addCartItems and applyDiscount                                          *)
(***************************************************************************)

\* available = on_hand - reserved; available < qty throws insufficient_inventory.
RECURSIVE AllAvailable(_)
AllAvailable(items) ==
    IF items = <<>> THEN TRUE
    ELSE /\ inventory[Head(items).sku].on_hand - inventory[Head(items).sku].reserved
                >= Head(items).qty
         /\ AllAvailable(Tail(items))

\* POST /{cartId}/items as one step: the cart must be open, every line available;
\* the cart_items are replaced and a discount on the cart is re-validated.
addCartItems(c, items) ==
    /\ carts[c].status = "open"
    /\ carts[c].items # items
    /\ ~Unlisted(items)
    /\ AllAvailable(items)
    /\ LET id == carts[c].discount_id
           valid == /\ id # NULL
                    /\ ValidateDiscountRow(discounts[id], Subtotal(items))
                    /\ ValidateDiscountCustomer(discounts[id], id, CartEmail[c])
       IN carts' = [carts EXCEPT
                       ![c].items = items,
                       ![c].discount_id = IF valid THEN id ELSE NULL,
                       ![c].discount_amount_cents =
                           IF valid THEN calculateDiscount(discounts[id], Subtotal(items))
                           ELSE 0]
    /\ UNCHANGED <<inventory, discounts, customers, orders, order_items, discount_usage,
                   events, sessions, pastExpiry, co, wh, dispatch, requests>>

\* POST /{cartId}/apply-discount as one step.
applyDiscount(c, id) ==
    /\ carts[c].status = "open"
    /\ carts[c].items # <<>>
    /\ carts[c].discount_id = NULL
    /\ ValidateDiscountRow(discounts[id], Subtotal(carts[c].items))
    /\ ValidateDiscountCustomer(discounts[id], id, CartEmail[c])
    /\ carts' = [carts EXCEPT
                    ![c].discount_id = id,
                    ![c].discount_amount_cents =
                        calculateDiscount(discounts[id], Subtotal(carts[c].items))]
    /\ UNCHANGED <<inventory, discounts, customers, orders, order_items, discount_usage,
                   events, sessions, pastExpiry, co, wh, dispatch, requests>>

\* POST /{cartId}/items statement by statement.  First the SELECT of the cart, which
\* throws unless the cart is open, and the validation loop, which only reads (variants,
\* inventory) and throws on a line that is not available.
addCartItemsValidate(r, c, items) ==
    /\ rp[r].pc = "idle"
    /\ rp' = [rp EXCEPT ![r] =
                 IF carts[c].status # "open"
                 THEN [rp[r] EXCEPT !.pc = "failed", !.cart = c, !.error = "conflict"]
                 ELSE IF Unlisted(items)
                 THEN [rp[r] EXCEPT !.pc = "failed", !.cart = c, !.error = "not_found"]
                 ELSE IF ~AllAvailable(items)
                 THEN [rp[r] EXCEPT !.pc = "failed", !.cart = c,
                                    !.error = "insufficient_inventory"]
                 ELSE [rp[r] EXCEPT !.pc = "delete", !.cart = c,
                                    !.discount_id = carts[c].discount_id,
                                    !.validatedItems = items, !.i = 1]]
    /\ UNCHANGED <<store, sessions, pastExpiry, co, wh, dispatch, subscriptions, variants, ucp>>

\* DELETE FROM cart_items WHERE cart_id = ?
addCartItemsDelete(r) ==
    /\ rp[r].pc = "delete"
    /\ carts' = [carts EXCEPT ![rp[r].cart].items = <<>>]
    /\ rp' = [rp EXCEPT ![r].pc = "insert"]
    /\ UNCHANGED <<inventory, discounts, customers, orders, order_items, discount_usage,
                   events, sessions, pastExpiry, co, wh, dispatch, subscriptions, variants, ucp>>

\* One pass of the INSERT INTO cart_items loop.
addCartItemsInsert(r) ==
    /\ rp[r].pc = "insert"
    /\ carts' = [carts EXCEPT ![rp[r].cart].items =
                                   Append(@, rp[r].validatedItems[rp[r].i])]
    /\ rp' = [rp EXCEPT ![r].i = @ + 1,
                        ![r].pc = IF rp[r].i = Len(rp[r].validatedItems) THEN "discount"
                                  ELSE "insert"]
    /\ UNCHANGED <<inventory, discounts, customers, orders, order_items, discount_usage,
                   events, sessions, pastExpiry, co, wh, dispatch, subscriptions, variants, ucp>>

\* The SELECT of the cart_items, the re-validation of the discount the cart row had
\* when it was read (discount_amount_cents is updated, or the discount is stripped),
\* and the 200.
addCartItemsDiscount(r) ==
    /\ rp[r].pc = "discount"
    /\ LET c == rp[r].cart
           id == rp[r].discount_id
           subtotalCents == Subtotal(carts[c].items)
           valid == /\ id # NULL
                    /\ ValidateDiscountRow(discounts[id], subtotalCents)
                    /\ ValidateDiscountCustomer(discounts[id], id, CartEmail[c])
       IN carts' = IF id = NULL THEN carts
                   ELSE IF valid
                   THEN [carts EXCEPT ![c].discount_amount_cents =
                                          calculateDiscount(discounts[id], subtotalCents)]
                   ELSE [carts EXCEPT ![c].discount_id = NULL,
                                      ![c].discount_amount_cents = 0]
    /\ rp' = [rp EXCEPT ![r] = [IdleRp EXCEPT !.pc = "done", !.cart = rp[r].cart]]
    /\ UNCHANGED <<inventory, discounts, customers, orders, order_items, discount_usage,
                   events, sessions, pastExpiry, co, wh, dispatch, subscriptions, variants, ucp>>

\* DELETE /v1/products/{id}/variants/{variantId}: refused when the SKU has been
\* ordered; else the inventory row and the variants row are deleted.  No handler tells
\* the state between the two DELETEs from the one after them.
deleteVariant(s) ==
    /\ HasRow(s)
    /\ \A i \in order_items : i.sku # s
    /\ variants' = [variants EXCEPT ![s] = "none"]
    /\ inventory' = [inventory EXCEPT ![s] = [on_hand |-> 0, reserved |-> 0]]
    /\ UNCHANGED <<carts, discounts, customers, orders, order_items, discount_usage,
                   events, sessions, pastExpiry, co, wh, dispatch, rp, subscriptions, ucp>>

addCartItemsSteps(r) ==
    \/ \E c \in Carts, items \in ItemLists : addCartItemsValidate(r, c, items)
    \/ addCartItemsDelete(r)
    \/ addCartItemsInsert(r)
    \/ addCartItemsDiscount(r)

(***************************************************************************)
(* Outbound dispatcher: dispatchWebhooks, deliverWebhook, the retry sweep  *)
(* and the operator's retry route                                          *)
(***************************************************************************)

\* The deliverWebhook invocation that is started next.
NextTask == CHOOSE t \in Tasks : dw[t].pc = "idle" /\ \A u \in Tasks : u < t => dw[u].pc # "idle"

FreeTask == \E t \in Tasks : dw[t].pc = "idle"

\* ctx.waitUntil(deliverWebhook(...)): the invocation stands before its first UPDATE.
Started(d) == [IdleDw EXCEPT !.pc = "update", !.deliveryId = d, !.attempt = 1]

\* dispatchWebhooks for one subscribed webhook: INSERT INTO webhook_deliveries with
\* status 'pending', then deliverWebhook is started.
dispatchWebhooks(d) ==
    /\ webhook_deliveries[d].status = "none"
    /\ FreeTask
    /\ webhook_deliveries' = [webhook_deliveries EXCEPT ![d] =
                                 [status |-> "pending", attempts |-> 0]]
    /\ dw' = [dw EXCEPT ![NextTask] = Started(d)]
    /\ UNCHANGED <<pipeline, requests, failed, fetches>>

\* UPDATE webhook_deliveries SET attempts = ?, last_attempt_at = ? WHERE id = ?
DeliverUpdate(t) ==
    /\ dw[t].pc = "update"
    /\ webhook_deliveries' = [webhook_deliveries EXCEPT
                                 ![dw[t].deliveryId].attempts = dw[t].attempt]
    /\ dw' = [dw EXCEPT ![t].pc = "fetch", ![t].response = NoResponse]
    /\ UNCHANGED <<pipeline, requests, failed, fetches>>

\* response.ok
Ok(response) == response >= 200 /\ response <= 299

\* Every 4xx taken as final, the 429 too.
RejectedWith429(response) == response >= 400 /\ response < 500

\* responseCode >= 400 && responseCode < 500 && responseCode !== 429
Rejected(response) == response >= 400 /\ response < 500 /\ response # 429

\* The loop going round once more, one attempt too many.
MoreAttemptsOneMore(attempt) == attempt < MAX_ATTEMPTS + 1

\* attempt < MAX_ATTEMPTS: the loop goes round once more.
MoreAttempts(attempt) == attempt < MAX_ATTEMPTS

\* Math.pow(2, attempt) * 1000
Backoff(attempt) == (2 ^ attempt) * 1000

\* always500 and response are history: every answer the invocation has had so far was
\* a 500, and the answer to the POST just made (0: fetch threw), kept up to the next
\* statement.
\* fetch(url, ...), the classification of the response, and on a retryable one the
\* setTimeout before the next attempt: the wait touches no row.
DeliverFetch(t, response) ==
    /\ dw[t].pc = "fetch"
    /\ fetches' = [fetches EXCEPT ![dw[t].deliveryId] = @ + 1]
    /\ LET rec == [dw[t] EXCEPT !.always500 = @ /\ response = 500,
                                !.response = response] IN
       dw' = [dw EXCEPT ![t] =
                 IF response # 0 /\ Ok(response)
                 THEN [rec EXCEPT !.pc = "mark", !.mark = "success"]
                 ELSE IF response # 0 /\ Rejected(response)
                 THEN [rec EXCEPT !.pc = "mark", !.mark = "failed"]
                 ELSE IF MoreAttempts(rec.attempt)
                 THEN [rec EXCEPT !.pc = "update", !.attempt = @ + 1,
                                  !.delays = Append(@, Backoff(rec.attempt))]
                 ELSE [rec EXCEPT !.pc = "mark", !.mark = "failed"]]
    /\ UNCHANGED <<pipeline, requests, webhook_deliveries, failed>>

\* UPDATE webhook_deliveries SET status = 'success' | 'failed', ... WHERE id = ?
DeliverMark(t) ==
    /\ dw[t].pc = "mark"
    /\ webhook_deliveries' = [webhook_deliveries EXCEPT
                                 ![dw[t].deliveryId].status = dw[t].mark]
    /\ dw' = [dw EXCEPT ![t].pc = "done", ![t].response = NoResponse]
    /\ UNCHANGED <<pipeline, requests, failed, fetches>>

deliverWebhook(t) ==
    \/ DeliverUpdate(t)
    \/ \E response \in Responses : DeliverFetch(t, response)
    \/ DeliverMark(t)

\* retryFailedDeliveries, its SELECT: WHERE wd.status = 'failed' AND wd.attempts < ?
\* (the webhook is active and the delivery younger than 24 hours).
retryFailedDeliveriesSelect ==
    /\ failed = {}
    /\ failed' = {d \in Deliveries : /\ webhook_deliveries[d].status = "failed"
                                      /\ webhook_deliveries[d].attempts < MAX_ATTEMPTS}
    /\ failed' # {}
    /\ UNCHANGED <<pipeline, requests, webhook_deliveries, dw, fetches>>

\* retryFailedDeliveries, one pass of its loop: UPDATE webhook_deliveries SET status =
\* 'pending' WHERE id = ?, then deliverWebhook is started.
retryFailedDeliveriesEnqueue(d) ==
    /\ d \in failed
    /\ FreeTask
    /\ failed' = failed \ {d}
    /\ webhook_deliveries' = [webhook_deliveries EXCEPT ![d].status = "pending"]
    /\ dw' = [dw EXCEPT ![NextTask] = Started(d)]
    /\ UNCHANGED <<pipeline, requests, fetches>>

\* POST /{id}/deliveries/{deliveryId}/retry: the delivery exists; UPDATE
\* webhook_deliveries SET status = 'pending', attempts = 0, then retryDelivery.
retryDeliveryRoute(d) ==
    /\ webhook_deliveries[d].status # "none"
    /\ FreeTask
    /\ webhook_deliveries' = [webhook_deliveries EXCEPT ![d] =
                                 [status |-> "pending", attempts |-> 0]]
    /\ dw' = [dw EXCEPT ![NextTask] = Started(d)]
    /\ UNCHANGED <<pipeline, requests, failed, fetches>>

\* An event for one subscriber, its delivery, and the retries of it.
NextDispatch ==
    \/ \E d \in Deliveries : dispatchWebhooks(d)
    \/ \E t \in Tasks : deliverWebhook(t)
    \/ retryFailedDeliveriesSelect
    \/ \E d \in Deliveries : retryFailedDeliveriesEnqueue(d)
    \/ \E d \in Deliveries : retryDeliveryRoute(d)

SpecDispatch == Init /\ [][NextDispatch]_vars

\* The cart requests and the timer that run beside the checkouts and the deliveries.
Shopper ==
    \/ cleanupExpiredCarts
    \/ \E c \in Carts : TimePasses(c)
    \/ \E c \in Carts, items \in ItemLists : addCartItems(c, items)
    \/ \E c \in Carts, id \in Discounts : applyDiscount(c, id)

\* Two racing checkouts, one delivery of a completion notification.
Next ==
    \/ \E k \in CheckoutIds : Checkout(k)
    \/ Webhook("w1")
    \/ Shopper

Spec == Init /\ [][Next]_vars

\* One checkout, two deliveries of its completion notification.  With no second
\* checkout and no earlier order, the cart's discount is never refused.
NextSettle ==
    \/ CheckoutCore("k1")
    \/ CheckoutDiscount("k1")
    \/ \E w \in DeliveryIds : Webhook(w)
    \/ Shopper

SpecSettle == Init /\ [][NextSettle]_vars

\* The steps of a checkout after its first statement: the handler, once invoked, runs
\* on to its return or its throw.
CheckoutRuns(k) ==
    \/ CheckoutFlipFailed(k)
    \/ CheckoutReserveItem(k)
    \/ CheckoutReleaseItem(k)
    \/ CheckoutRevert(k)
    \/ \E outcome \in ProviderOutcomes : CheckoutProvider(k, outcome)
    \/ CheckoutDiscount(k)
    \/ CheckoutStripDiscount(k)

\* The clock passes the expires_at of a discount.
DiscountLapses(id) ==
    /\ discounts[id].in_window
    /\ discounts' = [discounts EXCEPT ![id].in_window = FALSE]
    /\ UNCHANGED <<inventory, carts, customers, orders, order_items, discount_usage,
                   events, sessions, pastExpiry, co, wh, dispatch, requests>>

\* One checkout whose payment is never completed: no notification is ever delivered.
\* The clock passes every expires_at, of the carts and of the discount.
NextAbandon ==
    \/ Checkout("k1")
    \/ Shopper
    \/ \E c \in Carts : ExpiryPasses(c)
    \/ \E id \in Discounts : DiscountLapses(id)

\* The cron trigger keeps invoking scheduled(), the clock keeps running, and an
\* invoked handler runs to its end.
SpecAbandon ==
    /\ Init
    /\ [][NextAbandon]_vars
    /\ WF_vars(cleanupExpiredCarts)
    /\ \A c \in Carts : WF_vars(ExpiryPasses(c))
    /\ WF_vars(CheckoutRuns("k1"))

(***************************************************************************)
(* Properties                                                              *)
(***************************************************************************)

\* orders rows of a payment session.
OrdersOf(id) == {o \in orders : o.stripe_checkout_session_id = id}

\* The store shows one settlement of the session: one order with one order_items row
\* per line, one discount_usage row at most, order_count 1, and on_hand lowered once
\* (the session is the only one of its run, so on_hand started from MaxStock).
SettledOnce(id) ==
    LET s == SessionOf(id) IN
    /\ Cardinality(OrdersOf(id)) = 1
    /\ \A o \in OrdersOf(id) :
           /\ Cardinality({r \in order_items : r.order_id = o.id}) = Len(s.line_items)
           /\ Cardinality({u \in discount_usage : u.order_id = o.id}) <= 1
    /\ Cardinality(discount_usage) <= 1
    /\ customers[CartEmail[s.cart_id]].order_count = 1
    /\ \A sku \in Skus : inventory[sku].on_hand = MaxStock - QtyOf(s.line_items, sku)

\* No checkout was ever asked for the cart.
NeverCheckedOut(c) == \A k \in CheckoutIds : co[k].cart # c

\* A failed checkout is about to revert its cart: its compensations have run.
RolledBack(k, causes) == co[k].pc = "revert" /\ co[k].failedAt \in causes

\* What its reservations and releases have left in reserved and in usage_count.
NothingLeft(k) == (\A s \in Skus : co[k].netReserved[s] = 0) /\ co[k].netUsage = 0

\* The checkout is past the flip of its cart and has not given the cart back.
Holding(k) == co[k].pc \notin {"idle", "flip_failed", "failed"}

C2_NeverOversells == \A s \in Skus : inventory[s].on_hand >= 0

\* C3: a payment session has at most one order, whatever the number and interleaving of
\* the deliveries of its notification; stated for the runs in which no delivery raised,
\* so that only deliveries that overlap are left to break it.
C3_OneOrderPerSession ==
    (\A w \in DeliveryIds : wh[w].error = NULL)
        => \A id \in CheckoutIds : Cardinality(OrdersOf(id)) <= 1

\* C4: handling a notification whose event is already logged changes nothing in the
\* store and returns success, and the store shows exactly one settlement of it.
C4_ReplayIsNoOp ==
    [][\A w \in DeliveryIds :
          (wh[w].pc = "dedupe" /\ wh[w].session \in events /\ wh'[w] # wh[w])
              => /\ store' = store
                 /\ wh'[w].pc = "done"
                 /\ wh'[w].result = "ok_duplicate"
                 /\ SettledOnce(wh[w].session)']_vars

\* A delivery that arrived after the first had ended was answered as a duplicate.
C4_Witness ==
    \E w \in DeliveryIds :
        wh[w].pc = "done" /\ wh[w].result = "ok_duplicate" /\ wh[w].sequential

\* C5: when a handling stopped with an error after some of its steps and the
\* notification, redelivered, was then handled from the top to the end, the store is as
\* after one uninterrupted handling.
C5_RedeliveryConverges ==
    \A w \in DeliveryIds :
        (wh[w].pc = "done" /\ wh[w].result = "ok" /\ wh[w].sequential /\ wh[w].retry)
            => SettledOnce(wh[w].session)

\* C6: 0 <= usage_count <= usage_limit for every discount with a usage_limit, in every
\* state that checkouts and their rollbacks reach.
C6_UsageWithinLimit ==
    \A id \in Discounts :
        discounts[id].usage_limit # NoLimit
            => /\ 0 <= discounts[id].usage_count
               /\ discounts[id].usage_count <= discounts[id].usage_limit

\* A checkout was refused the discount, whose usage_count another checkout had brought
\* to the limit.
C6_Witness ==
    \E k \in CheckoutIds :
        /\ co[k].pc = "strip_discount"
        /\ discounts[co[k].discount_id].usage_count = discounts[co[k].discount_id].usage_limit
        /\ \E j \in CheckoutIds \ {k} : co[j].discountReserved

\* C7: the number of settled orders that reference a discount never exceeds its
\* usage_limit.
C7_SettledWithinLimit ==
    \A id \in Discounts :
        discounts[id].usage_limit # NoLimit
            => Cardinality({o \in orders : o.discount_id = id}) <= discounts[id].usage_limit

\* C8: a checkout that failed while reserving its k-th line has left nothing in reserved
\* nor in usage_count when it reverts its cart, and the cart is open after the revert.
C8_RollbackRestores ==
    [][\A k \in CheckoutIds :
          (RolledBack(k, {"reserve"}) /\ co'[k].pc = "failed")
              => NothingLeft(k) /\ carts'[co[k].cart].status = "open"]_vars

\* C9: a checkout whose coupon or session creation failed has left nothing in reserved
\* nor in usage_count when it reverts its cart, the cart is open after the revert, and the
\* caller gets the payment provider error (ApiError.stripeError, code stripe_error).
C9_ProviderFailureRollsBack ==
    [][\A k \in CheckoutIds :
          (RolledBack(k, {"coupon_failed", "session_failed"}) /\ co'[k].pc = "failed")
              => /\ NothingLeft(k)
                 /\ carts'[co[k].cart].status = "open"
                 /\ co'[k].error = "stripe_error"]_vars

\* C10: a sweep of carts that are open, past expires_at and were never checked out (they
\* hold no reservation) leaves every reserved counter as it was, and leaves the carts
\* expired with no line items.
C10_SweepReleasesHeld ==
    [][(/\ ExpiredCarts # {}
        /\ \A c \in ExpiredCarts : NeverCheckedOut(c) /\ carts'[c].status = "expired")
           => /\ inventory' = inventory
              /\ \A c \in ExpiredCarts : carts'[c].items = <<>>]_vars

\* The request body that fills the cart left behind.
StaleItems == <<[sku |-> "X", qty |-> 1]>>

\* Two racing checkouts of carts without discounts beside a cart that is filled, left
\* behind and swept; no payment is completed.
NextStale ==
    \/ \E k \in CheckoutIds : CheckoutCore(k)
    \/ cleanupExpiredCarts
    \/ \E c \in AllCarts : TimePasses(c)
    \/ \E c \in Carts, items \in ItemLists : addCartItems(c, items)
    \/ \E c \in StaleCarts : addCartItems(c, StaleItems)

SpecStale == Init /\ [][NextStale]_vars

\* C11: a cart whose checkout created a payment session that is never paid reaches
\* expired once its expires_at has passed and the sweep keeps running, and the sweep has
\* then taken the checkout's reservations out of reserved (the checkout is the only one
\* of its run, so nothing is left reserved).
C11_AbandonedReservationReleased ==
    \A c \in Carts :
        (carts[c].stripe_checkout_session_id # NULL)
            ~> (carts[c].status = "expired" /\ \A s \in Skus : inventory[s].reserved <= 0)

\* C12: when a checkout has incremented the usage_count of its cart's discount and the
\* cart never reaches settlement, the sweep eventually takes the increment back (the
\* checkout is the only one of its run, so usage_count returns to 0).
C12_AbandonedUsageReleased ==
    \A c \in Carts, id \in Discounts :
        (carts[c].stripe_checkout_session_id # NULL /\ carts[c].discount_id = id)
            ~> (discounts[id].usage_count = 0)

\* C13: no two checkouts are past the flip of the same cart at the same time, and a
\* checkout invoked on a cart that another one holds fails at the flip and ends with a
\* conflict, having changed no row: nothing reserved, no usage_count incremented.
C13_OneCheckoutPerCart ==
    [][/\ \A k, j \in CheckoutIds :
              (k # j /\ Holding(k)' /\ Holding(j)') => co'[k].cart # co'[j].cart
       /\ \A k \in CheckoutIds :
              \A j \in CheckoutIds \ {k} :
                  /\ (co[k].pc = "idle" /\ co'[k].pc # "idle"
                          /\ Holding(j) /\ co[j].cart = co'[k].cart)
                         => co'[k].pc = "flip_failed" /\ store' = store
                  /\ (co[k].pc = "flip_failed" /\ co'[k].pc # "flip_failed"
                          /\ Holding(j) /\ co[j].cart = co[k].cart)
                         => /\ co'[k].pc = "failed"
                            /\ co'[k].error = "conflict"
                            /\ store' = store]_vars

\* A checkout was refused with a conflict on the cart for which another checkout, its
\* inventory reserved, is waiting for the payment provider.
C13_Witness ==
    \E k \in CheckoutIds, j \in CheckoutIds :
        /\ k # j
        /\ co[k].pc = "failed" /\ co[k].error = "conflict"
        /\ co[j].pc = "provider" /\ co[j].cart = co[k].cart

\* What the given checkouts hold of a SKU between them.
RECURSIVE HeldBy(_, _)
HeldBy(ks, s) ==
    IF ks = {} THEN 0
    ELSE LET k == CHOOSE x \in ks : TRUE
         IN co[k].netReserved[s] + HeldBy(ks \ {k}, s)

\* C14: concurrent checkouts of different carts never hold between them more of a SKU
\* than its on_hand; a checkout that asks for more of a SKU than on_hand - reserved fails
\* with insufficient_inventory naming that SKU, its statement leaves reserved as it was,
\* and it has left nothing of its own in reserved of that SKU when it reverts its cart.
C14_NoJointReservation ==
    [][/\ \A s \in Skus : HeldBy(CheckoutIds, s)' <= inventory'[s].on_hand
       /\ \A k \in CheckoutIds :
              (/\ co[k].pc = "reserve"
               /\ co'[k] # co[k]
               /\ LET item == co[k].items[co[k].i]
                  IN inventory[item.sku].on_hand - inventory[item.sku].reserved < item.qty)
                  => /\ inventory' = inventory
                     /\ co'[k].error = "insufficient_inventory"
                     /\ co'[k].items[co'[k].failedIndex].sku = co[k].items[co[k].i].sku
       /\ \A k \in CheckoutIds :
              RolledBack(k, {"reserve"})
                  => co[k].netReserved[co[k].items[co[k].failedIndex].sku] = 0]_vars

\* The delays between consecutive attempts never shrink.
NonDecreasing(delays) == \A n \in 1..(Len(delays) - 1) : delays[n] <= delays[n + 1]

\* C15: a deliverWebhook invocation whose every POST was answered 500 marks the delivery
\* failed after exactly MAX_ATTEMPTS attempts, with non-decreasing waits between them;
\* when it is the only invocation for the delivery, the row then reads attempts =
\* MAX_ATTEMPTS and the subscriber has been sent MAX_ATTEMPTS POSTs.
C15_AlwaysFailingEndpoint ==
    [][\A t \in Tasks :
          (dw[t].pc = "mark" /\ dw'[t].pc = "done" /\ dw[t].always500)
              => LET d == dw[t].deliveryId IN
                 /\ dw[t].attempt = MAX_ATTEMPTS
                 /\ Len(dw[t].delays) = MAX_ATTEMPTS - 1
                 /\ NonDecreasing(dw[t].delays)
                 /\ webhook_deliveries'[d].status = "failed"
                 /\ (\A u \in Tasks \ {t} : dw[u].pc = "idle")
                        => /\ webhook_deliveries'[d].attempts = MAX_ATTEMPTS
                           /\ fetches[d] = MAX_ATTEMPTS]_vars

\* The first invocation, answered 500 every time, has ended: the delivery is failed
\* after waits of 2 s and 4 s.
C15_Witness ==
    /\ dw[0].pc = "done" /\ dw[0].always500
    /\ dw[0].delays = <<Backoff(1), Backoff(2)>>
    /\ Backoff(1) < Backoff(2)
    /\ \E d \in Deliveries :
           webhook_deliveries[d].status = "failed" /\ fetches[d] = MAX_ATTEMPTS

\* C18: a delivery whose status is success or failed keeps that status whatever
\* operation runs next.
C18_TerminalStatuses ==
    [][\A d \in Deliveries :
          webhook_deliveries[d].status \in {"success", "failed"}
              => webhook_deliveries'[d].status = webhook_deliveries[d].status]_vars

\* C19: the POSTs made for one delivery, by its first dispatch and by every later
\* re-enqueue of the retry sweep or of the operator, never number more than MAX_ATTEMPTS.
C19_AttemptCeiling == \A d \in Deliveries : fetches[d] <= MAX_ATTEMPTS

Forward == {<<"open", "checked_out">>, <<"open", "expired">>, <<"checked_out", "expired">>}

\* C17: every change of a cart's status is open -> checked_out, open -> expired,
\* checked_out -> expired, or checked_out -> open made by the checkout that holds the
\* cart as the last statement of its rollback; an expired cart keeps its status.
C17_CartTransitions ==
    [][\A c \in AllCarts :
          carts'[c].status # carts[c].status
              => \/ <<carts[c].status, carts'[c].status>> \in Forward
                 \/ /\ carts[c].status = "checked_out" /\ carts'[c].status = "open"
                    /\ \E k \in CheckoutIds :
                           /\ co[k].cart = c
                           /\ co[k].pc \in {"revert", "strip_discount"}
                           /\ co'[k].pc = "failed"]_vars

\* A checkout is refused the cart that a settlement has left expired.
C17_Witness ==
    \E k \in CheckoutIds :
        /\ co[k].pc = "flip_failed"
        /\ carts[co[k].cart].status = "expired"
        /\ \E o \in orders : SessionOf(o.stripe_checkout_session_id).cart_id = co[k].cart

\* The checks of the re-validation whose failure the checkout is to survive.
SoftRefusals == {"not_active", "window", "minimum", "per_customer"}

\* C20: a checkout whose discount has failed the re-validation (not active, outside its
\* window, below the minimum purchase, per-customer usage reached) strips the discount
\* from the cart and goes on to reserve the inventory, the cart staying checked_out.
C20_InvalidDiscountStripped ==
    [][\A k \in CheckoutIds :
          (co[k].pc = "strip_discount" /\ co[k].failedAt \in SoftRefusals
               /\ co'[k] # co[k])
              => /\ carts'[co[k].cart].discount_id = NULL
                 /\ carts'[co[k].cart].status = "checked_out"
                 /\ co'[k].pc = "reserve"]_vars

\* C21: a rollback releases the inventory in the reverse of the order in which the
\* checkout reserved it, releases the discount only when no inventory of the checkout is
\* left to release, and reverts the cart only after both.
C21_RollbackInnermostFirst ==
    [][\A k \in CheckoutIds :
          /\ (co[k].pc = "release_inv" /\ co'[k].reservedItems # co[k].reservedItems)
                 => co'[k].reservedItems =
                        SubSeq(co[k].reservedItems, 1, Len(co[k].reservedItems) - 1)
          /\ (co[k].pc = "release_disc" /\ co'[k].pc # "release_disc")
                 => co[k].reservedItems = <<>>
          /\ (co[k].pc = "revert" /\ co'[k].pc = "failed")
                 => co[k].reservedItems = <<>>]_vars

\* One checkout and one delivery of its completion notification, beside an item
\* replacement request that is taken statement by statement and the deletion of
\* variants from the catalog.
NextReplace ==
    \/ CheckoutCore("k1")
    \/ CheckoutDiscount("k1")
    \/ Webhook("w1")
    \/ addCartItemsSteps("r1")
    \/ \E items \in ItemLists : addCartItems("c1", items)
    \/ \E id \in Discounts : applyDiscount("c1", id)
    \/ TimePasses("c1")
    \/ cleanupExpiredCarts
    \/ \E s \in Skus : deleteVariant(s)

SpecReplace == Init /\ [][NextReplace]_vars

\* C29: the line items of a cart do not change while the cart is checked_out.
C29_ItemsFrozenWhileCheckedOut ==
    [][\A c \in Carts :
          (carts[c].status = "checked_out" /\ carts'[c].status = "checked_out")
              => carts'[c].items = carts[c].items]_vars

\* C22: a verified notification that finds its cart with no line items left creates no
\* Order: when its handler reaches the end of the settlement, no Order carries its
\* session.
C22_EmptyCartIsNoOp ==
    \A w \in DeliveryIds :
        (wh[w].pc = "cart_expire" /\ wh[w].items = <<>>) => OrdersOf(wh[w].session) = {}

\* C23: a settlement whose emission of order.created has failed does not end in an
\* error, and once it has ended the event id of its notification is recorded as
\* processed.
C23_EmissionFailureStands ==
    \A w \in DeliveryIds :
        ~wh[w].dispatched =>
            /\ wh[w].pc # "failed"
            /\ wh[w].pc = "done" => Existing(wh[w].session)

\* C24: for every discount with a per-customer limit and every customer, the number of
\* discount_usage rows of that discount and customer is at most the limit.
C24_UsageRowsWithinLimit ==
    \A id \in Discounts, e \in Emails :
        discounts[id].usage_limit_per_customer # NoLimit
            => UsageCount(id, e) <= discounts[id].usage_limit_per_customer

\* A settlement with a discount has passed the conditional INSERT without a row for its
\* order: the customer's rows had reached the limit.
C24_Witness ==
    \E w \in DeliveryIds :
        /\ wh[w].pc \in {"settle_item", "cart_expire", "log_event"}
        /\ wh[w].discountId # NULL
        /\ wh[w].discountAmountCents > 0
        /\ wh[w].orderId \in {o.id : o \in orders}
        /\ \A u \in discount_usage : u.order_id # wh[w].orderId
        /\ UsageCount(wh[w].discountId, CartEmail[wh[w].cart])
               = wh[w].discount.usage_limit_per_customer

(***************************************************************************)
(* dispatchWebhooks: which subscribers get a delivery                      *)
(***************************************************************************)

\* e.endsWith(suffix)
EndsWith(e, suffix) ==
    /\ Len(e) >= Len(suffix)
    /\ SubSeq(e, Len(e) - Len(suffix) + 1, Len(e)) = suffix

\* A startsWith that every string passes.
StartsWithAny(e, prefix) == TRUE

\* e.startsWith(prefix)
StartsWith(e, prefix) ==
    /\ Len(e) >= Len(prefix)
    /\ SubSeq(e, 1, Len(prefix)) = prefix

\* e.slice(0, -n)
SliceOff(e, n) == SubSeq(e, 1, Len(e) - n)

\* subscribedEvents.some(...)
isSubscribed(subscribedEvents, eventType) ==
    \E n \in 1..Len(subscribedEvents) :
        LET e == subscribedEvents[n] IN
        \/ e = <<"*">>
        \/ e = eventType
        \/ /\ EndsWith(e, <<".", "*">>)
           /\ StartsWith(eventType, SliceOff(e, 2) \o <<".">>)

\* POST /v1/webhooks: a row under a fresh id, active.  The subscriber requests are
\* taken before the dispatch, which reads the rows only through its SELECT.
createWebhook(h, subscribedEvents) ==
    /\ dp.pc = "idle"
    /\ webhooks[h] = NoWebhook
    /\ webhooks' = [webhooks EXCEPT ![h] = [status |-> "active", events |-> subscribedEvents]]
    /\ UNCHANGED <<pipeline, dispatch, rp, dp, variants, ucp>>

\* PATCH /v1/webhooks/{id} with a body that holds a status.
updateWebhook(h, status) ==
    /\ dp.pc = "idle"
    /\ webhooks[h] # NoWebhook
    /\ webhooks[h].status # status
    /\ webhooks' = [webhooks EXCEPT ![h].status = status]
    /\ UNCHANGED <<pipeline, dispatch, rp, dp, variants, ucp>>

\* The rows of the ids in hs, in that order.
RECURSIVE RowsOf(_)
RowsOf(hs) ==
    IF hs = <<>> THEN <<>>
    ELSE <<[id |-> Head(hs), events |-> webhooks[Head(hs)].events]>> \o RowsOf(Tail(hs))

IsActive(h) == webhooks[h].status = "active"

\* SELECT id, url, events, secret FROM webhooks WHERE status = 'active'
dispatchWebhooksSelect(eventType) ==
    /\ dp.pc = "idle"
    /\ LET rows == RowsOf(SelectSeq(<<"h1", "h2">>, IsActive))
       IN dp' = [dp EXCEPT !.pc = IF rows = <<>> THEN "done" ELSE "loop",
                           !.eventType = eventType, !.selected = rows, !.rest = rows]
    /\ UNCHANGED <<pipeline, dispatch, rp, webhooks, variants, ucp>>

\* One pass of the loop over the rows: the events array is parsed and matched; for a
\* subscribed row a delivery is inserted as pending and handed to deliverWebhook.
dispatchWebhooksLoop ==
    /\ dp.pc = "loop"
    /\ LET webhook == Head(dp.rest)
           row == [webhook_id |-> webhook.id, event_type |-> dp.eventType,
                   status |-> "pending"]
       IN dp' = [dp EXCEPT
                    !.inserted = IF isSubscribed(webhook.events, dp.eventType)
                                 THEN Append(@, row) ELSE @,
                    !.rest = Tail(@),
                    !.pc = IF Tail(dp.rest) = <<>> THEN "done" ELSE "loop"]
    /\ UNCHANGED <<pipeline, dispatch, rp, webhooks, variants, ucp>>

\* Subscribers are created and switched, then one event is dispatched.
NextSubscribe ==
    \/ \E subscribedEvents \in FilterLists : createWebhook("h1", subscribedEvents)
    \/ createWebhook("h2", <<order_any>>)
    \/ \E h \in Subscribers, status \in {"active", "disabled"} : updateWebhook(h, status)
    \/ \E eventType \in WebhookEventTypes : dispatchWebhooksSelect(eventType)
    \/ dispatchWebhooksLoop

SpecSubscribe == Init /\ [][NextSubscribe]_vars

\* The filter of the specification: some entry is the event name itself, the universal
\* wildcard, or a prefix p followed by ".*" where the name starts with p followed by ".".
Matches(filter, name) ==
    \E n \in 1..Len(filter) :
        \/ filter[n] = name
        \/ filter[n] = <<"*">>
        \/ \E k \in 0..(Len(name) - 1) :
               /\ filter[n] = SubSeq(name, 1, k) \o <<".", "*">>
               /\ name[k + 1] = "."

\* The webhook_deliveries rows the dispatch has inserted for a subscriber.
InsertedFor(h) == {n \in 1..Len(dp.inserted) : dp.inserted[n].webhook_id = h}

\* C25: when dispatchWebhooks has gone through its rows, a subscriber has exactly one
\* pending delivery of the event if it is active and its filter matches the event name,
\* and none otherwise.
C25_DeliveryIffMatch ==
    dp.pc = "done" =>
        \A h \in Subscribers :
            /\ Cardinality(InsertedFor(h)) =
                   IF webhooks[h].status = "active" /\ Matches(webhooks[h].events, dp.eventType)
                   THEN 1 ELSE 0
            /\ \A n \in InsertedFor(h) :
                   /\ dp.inserted[n].status = "pending"
                   /\ dp.inserted[n].event_type = dp.eventType

\* Two entries of a filter match the event, and a second subscriber matches through a
\* trailing wildcard: one delivery each.
C25_Witness ==
    /\ dp.pc = "done"
    /\ dp.eventType = order_shipped
    /\ webhooks["h1"] = [status |-> "active", events |-> <<order_any, any>>]
    /\ webhooks["h2"] = [status |-> "active", events |-> <<order_any>>]
    /\ Len(dp.inserted) = 2

\* C26: the answer to a POST decides the next step of the invocation: on a 2xx it marks
\* the delivery success and on a 4xx other than 429 failed, in both cases without a
\* further attempt; on any other outcome it makes a further attempt if attempts remain
\* and marks the delivery failed if none does.  An invocation that has marked the
\* delivery has stopped.
C26_ResponseDecides ==
    [][\A t \in Tasks :
          /\ (dw[t].pc = "fetch" /\ dw'[t].pc # "fetch")
                 => LET r == dw'[t].response IN
                    IF r \in 200..299
                    THEN dw'[t].pc = "mark" /\ dw'[t].mark = "success"
                    ELSE IF r \in 400..499 /\ r # 429
                    THEN dw'[t].pc = "mark" /\ dw'[t].mark = "failed"
                    ELSE IF dw[t].attempt < MAX_ATTEMPTS
                    THEN dw'[t].pc = "update" /\ dw'[t].attempt = dw[t].attempt + 1
                    ELSE dw'[t].pc = "mark" /\ dw'[t].mark = "failed"
          /\ (dw[t].pc = "mark" /\ dw'[t].pc # "mark")
                 => /\ dw'[t].pc = "done"
                    /\ webhook_deliveries'[dw[t].deliveryId].status = dw[t].mark
                    /\ dw'[t].attempt = dw[t].attempt
          /\ dw[t].pc = "done" => dw'[t] = dw[t]]_vars

\* A 429 on the first attempt has led to a second attempt, and a 404 on that one to the
\* delivery being marked failed with an attempt to spare.
C26_Witness ==
    \E t \in Tasks :
        /\ dw[t].pc = "mark" /\ dw[t].mark = "failed"
        /\ dw[t].response = 404
        /\ dw[t].attempt = 2
        /\ ~dw[t].always500

\* C27: a checkout of a cart with a line whose SKU is not an active variant of the
\* catalog holds no reservation, never returns a session, and ends with not_found and
\* the cart open.
C27_UnlistedLineRejected ==
    \A k \in CheckoutIds :
        co[k].unlisted =>
            /\ co[k].reservedItems = <<>>
            /\ co[k].pc # "done"
            /\ co[k].pc = "failed"
                   => co[k].error = "not_found" /\ carts[co[k].cart].status = "open"

(***************************************************************************)
(* UCP checkout sessions: POST, GET, PUT, POST .../complete, DELETE and    *)
(* handleUCPStripeWebhook, for one session                                 *)
(***************************************************************************)

\* What the UCP handlers leave alone: everything but the session.
shop == <<pipeline, dispatch, rp, subscriptions, variants>>

LineHasRow(item) == HasRow(item.sku)

\* The status the resolution of the line items gives: a line without a variant or
\* without enough stock is an error message, and a session with one is incomplete.
ResolvedStatus(items) ==
    IF SelectSeq(items, LineHasRow) = items /\ AllAvailable(items)
    THEN "ready_for_complete" ELSE "incomplete"

\* POST /ucp/v1/checkout-sessions
ucpCreate(items) ==
    /\ ucp.status = "none"
    /\ ucp' = [ucp EXCEPT !.status = ResolvedStatus(items),
                          !.line_items = SelectSeq(items, LineHasRow)]
    /\ UNCHANGED shop

\* The clock passes the session's expires_at, six hours after its creation.
ucpExpiryPasses ==
    /\ ucp.status # "none"
    /\ ~ucp.expired
    /\ ucp' = [ucp EXCEPT !.expired = TRUE]
    /\ UNCHANGED shop

\* GET /ucp/v1/checkout-sessions/:id after expires_at: UPDATE ... SET status =
\* 'canceled', whatever the status read.  Before expires_at it writes nothing.
ucpGet ==
    /\ ucp.status # "none"
    /\ ucp.expired
    /\ ucp.status # "canceled"
    /\ ucp' = [ucp EXCEPT !.status = "canceled"]
    /\ UNCHANGED shop

\* PUT /ucp/v1/checkout-sessions/:id: the SELECT, the status check and the resolution
\* of the new line items, which only reads.
ucpPutSelect(items) ==
    /\ ucp.put = "idle"
    /\ ucp.status # "none"
    /\ ucp' = IF ucp.status \in {"completed", "canceled"}
              THEN [ucp EXCEPT !.put = "failed"]
              ELSE [ucp EXCEPT !.put = "update",
                               !.resolved = [status |-> ResolvedStatus(items),
                                             line_items |-> SelectSeq(items, LineHasRow)]]
    /\ UNCHANGED shop

\* PUT: UPDATE ucp_checkout_sessions SET status = ?, line_items = ?, ... WHERE id = ?
ucpPutUpdate ==
    /\ ucp.put = "update"
    /\ ucp' = [ucp EXCEPT !.status = ucp.resolved.status,
                          !.line_items = ucp.resolved.line_items,
                          !.resolved = NoRow, !.put = "done"]
    /\ UNCHANGED shop

\* POST .../complete: the SELECT and the status checks.
ucpCompleteSelect ==
    /\ ucp.complete = "idle"
    /\ ucp.status # "none"
    /\ ucp' = [ucp EXCEPT !.complete = IF ucp.status = "ready_for_complete"
                                       THEN "mark" ELSE "failed"]
    /\ UNCHANGED shop

\* POST .../complete: UPDATE ... SET status = 'complete_in_progress'
ucpCompleteMark ==
    /\ ucp.complete = "mark"
    /\ ucp' = [ucp EXCEPT !.status = "complete_in_progress", !.complete = "stripe"]
    /\ UNCHANGED shop

\* POST .../complete: stripe.checkout.sessions.create and the UPDATE of
\* stripe_session_id; or the call raises, or the body names no payment handler.
ucpCompleteStripe(created) ==
    /\ ucp.complete = "stripe"
    /\ ucp' = IF created
              THEN [ucp EXCEPT !.stripe_session_id = "st1", !.complete = "done"]
              ELSE [ucp EXCEPT !.complete = "failed"]
    /\ UNCHANGED shop

\* DELETE /ucp/v1/checkout-sessions/:id: the SELECT and the status check.
ucpCancelSelect ==
    /\ ucp.cancel = "idle"
    /\ ucp.status # "none"
    /\ ucp' = [ucp EXCEPT !.cancel = IF ucp.status = "completed" THEN "failed"
                                     ELSE "update"]
    /\ UNCHANGED shop

\* DELETE: UPDATE ... SET status = 'canceled'
ucpCancelUpdate ==
    /\ ucp.cancel = "update"
    /\ ucp' = [ucp EXCEPT !.status = "canceled", !.cancel = "done"]
    /\ UNCHANGED shop

\* handleUCPStripeWebhook, called for a verified checkout.session.completed of the
\* session's Stripe session: the SELECT; a completed session is left alone.
ucpHookSelect ==
    /\ ucp.hook = "idle"
    /\ ucp.stripe_session_id # NULL
    /\ ucp' = [ucp EXCEPT !.hook = IF ucp.status = "completed" THEN "done" ELSE "order"]
    /\ UNCHANGED shop

\* handleUCPStripeWebhook: INSERT INTO orders (..., stripe_session_id, items,
\* created_at, updated_at).  The orders table of SCHEMA has no column stripe_session_id,
\* items or updated_at, and no migration adds one: the statement raises, and the UPDATE
\* ... SET status = 'completed' and the inventory loop after it are never run.
ucpHookOrder ==
    /\ ucp.hook = "order"
    /\ ucp' = [ucp EXCEPT !.hook = "failed"]
    /\ UNCHANGED shop

\* One UCP session and the requests on it.
NextUcp ==
    \/ \E items \in ItemLists : ucpCreate(items)
    \/ ucpExpiryPasses
    \/ ucpGet
    \/ \E items \in ItemLists : ucpPutSelect(items)
    \/ ucpPutUpdate
    \/ ucpCompleteSelect
    \/ ucpCompleteMark
    \/ \E created \in BOOLEAN : ucpCompleteStripe(created)
    \/ ucpCancelSelect
    \/ ucpCancelUpdate
    \/ ucpHookSelect
    \/ ucpHookOrder

SpecUcp == Init /\ [][NextUcp]_vars

\* No UCP session ever has status completed: the only statement that writes it comes
\* after the INSERT that raises.
UcpNeverCompleted == ucp.status # "completed"

\* C30: a UCP session with status completed keeps it, whatever request runs next.
C30_CompletedIsFinal ==
    [][ucp.status = "completed" => ucp'.status = "completed"]_vars

\* No checkout and no settlement is under way.
Quiescent ==
    /\ \A k \in CheckoutIds : co[k].pc \in {"idle", "flip_failed", "failed", "done"}
    /\ \A w \in DeliveryIds : wh[w].pc \in {"idle", "failed", "done"}

\* C28: reserved of a SKU is never negative, and whenever no checkout and no settlement
\* is under way it is the total quantity of the SKU in the line items of the carts that
\* hold a reservation: those checked out and neither settled nor rolled back.
C28_ReservedIsHeld ==
    \A s \in Skus :
        /\ inventory[s].reserved >= 0
        /\ Quiescent
               => inventory[s].reserved =
                      SumQty({c \in AllCarts : carts[c].status = "checked_out"}, s)

====
